---- MODULE Spec2Model ----
(***************************************************************************)
(* PetJo backend: authentication and session revocation.                   *)
(*                                                                         *)
(* Worker processes serve login / refresh / logout / change-password       *)
(* requests.  Each worker has its own module-level redis_client handle;    *)
(* the Redis server (denial records "blacklist:<token>" and the per-user   *)
(* sets "user_tokens:<user_id>") and the user table are shared.  Every     *)
(* Redis command is one atomic round trip, so a handler is a sequence of   *)
(* steps, one per round trip, with the local code around it.               *)
(***************************************************************************)
EXTENDS Integers, FiniteSets, Sequences, TLC

\* ---------------------------------------------------------------- bounds
\* External events (requests, administrator operations, store outages,
\* worker restarts) in one behaviour.
MaxOps == 4

\* ------------------------------------------------------- program constants
REFRESH_TOKEN_EXPIRE_DAYS == 7
ACCESS_TOKEN_EXPIRE_MINUTES == 30
socket_timeout == 5

RefreshExpiresIn == REFRESH_TOKEN_EXPIRE_DAYS * 24 * 60 * 60
AccessExpiresIn == ACCESS_TOKEN_EXPIRE_MINUTES * 60

\* --------------------------------------------------------------- universes
Procs == {"p1", "p2"}
Users == {"u1", "u2"}
Passwords == {"pw1", "pw2"}

\* Ids a row of the user table can have: the accounts that exist from the
\* start and two ids (uuid4) for accounts created later.
UserIds == Users \cup {"u3", "u4"}

\* Email strings as they are stored and compared: "U1@x" differs from "u1@x"
\* in the case of the local part only; "u3@x" belongs to no account at first.
Emails == {"u1@x", "U1@x", "u2@x", "u3@x"}

\* The email of the accounts that exist from the start.
EmailOf(u) == IF u = "u1" THEN "u1@x" ELSE "u2@x"

\* Sampled instants of the clock (integer seconds): the second a first token
\* is issued in, the next second, and the second that first token expires in.
Times == {0, 1, RefreshExpiresIn}

VARIABLES
    now,              \* wall clock, seconds
    users,            \* user table: id -> row
    redis_up,         \* the Redis server answers commands
    redis_client,     \* per worker: the handle is not None
    blacklist,        \* Redis keys blacklist:<token> -> instant the key expires, 0 = no key
    user_tokens,      \* Redis sets user_tokens:<user_id>
    user_tokens_ttl,  \* instant the set key expires, -1 = no expiry set (or no key)
    issued,           \* refresh tokens handed to clients (each with its access token)
    exchanged,        \* refresh tokens a refresh has returned a new pair for, and
                      \* that have not been handed out again since
    pc,               \* per worker: position in the handler being run
    call,             \* per worker: the request in flight, then its response
    nops,             \* number of external events so far
    advertisements,   \* advertisements table: id -> row
    favorites,        \* favorites table: set of rows
    favorites_id_seq, \* last value of the sequence behind favorites.id
    cache,            \* per worker: the module-level dict _cache, key -> value
    cache_ttl         \* per worker: the module-level dict _cache_ttl, key -> instant

vars == <<now, users, redis_up, redis_client, blacklist, user_tokens,
          user_tokens_ttl, issued, exchanged, pc, call, nops,
          advertisements, favorites, favorites_id_seq, cache, cache_ttl>>

\* The tables and the cache, which the authentication handlers never touch.
contentVars == <<advertisements, favorites, favorites_id_seq, cache, cache_ttl>>

\* ------------------------------------------------------------ token codec
\* A token string is determined by its signed payload.
Token(sub, type, iat) == [sub |-> sub, type |-> type, iat |-> iat]

NoToken == Token("none", "none", 0)
BadToken == Token("none", "garbage", 0)

expires_at(token) ==
    token.iat + (IF token.type = "refresh" THEN RefreshExpiresIn ELSE AccessExpiresIn)

create_access_token(sub, t) == Token(sub, "access", t)

create_refresh_token(sub, t) == Token(sub, "refresh", t)

RefreshTokens == {create_refresh_token(u, t) : u \in UserIds, t \in Times}
AccessTokens == {create_access_token(u, t) : u \in UserIds, t \in Times}
KeyTokens == RefreshTokens \cup AccessTokens \cup {BadToken}

\* Exceptions and responses as the client sees them: class, status, message.
Exc(cls, status, message) == [cls |-> cls, status |-> status, message |-> message]

\* An exception only general_exception_handler catches: the server answers 500.
Unhandled(cls) == Exc(cls, 500, "Internal server error")

NoOutcome == Exc("none", 0, "")
Success(message) == Exc("ApiResponse", 200, message)
AuthenticationException(message) == Exc("AuthenticationException", 401, message)
InvalidCredentialsException == Exc("InvalidCredentialsException", 401, "Invalid email or password")
InactiveAccountException == Exc("InactiveAccountException", 401, "Account is inactive")
EmailAlreadyExistsException == Exc("EmailAlreadyExistsException", 409, "Email already exists")
HTTPException(status, detail) == Exc("HTTPException", status, detail)

\* sqlalchemy's IntegrityError as integrity_error_handler answers it.
IntegrityError == Exc("IntegrityError", 409, "Database constraint violation")
InvalidTokenError == Exc("InvalidTokenError", 401, "Invalid token")
TokenExpiredError == Exc("TokenExpiredError", 401, "Token expired")

\* decode_token: signature and structure, then expiry against the clock.
\* Returns the exception it raises, NoOutcome when the payload is returned.
decode_token(token, t) ==
    IF token.type \notin {"access", "refresh"} THEN InvalidTokenError
    ELSE IF t >= expires_at(token) THEN TokenExpiredError
    ELSE NoOutcome

\* --------------------------------------------------------- password hasher
NoHash == <<"none", "">>
get_password_hash(password) == <<"hash", password>>
verify_password(password, hashed) == hashed = <<"hash", password>>


\* -------------------------------------------------------- request records
NoCall ==
    [op |-> "none", token |-> NoToken, user_id |-> "none", email |-> "", password |-> "",
     pending |-> {},
     tracked |-> {}, loginCase |-> "none",
     priorSuccess |-> FALSE, denyWritten |-> FALSE, expiredAtStart |-> FALSE,
     passwordOk |-> FALSE, activeAtStart |-> TRUE,
     raised |-> NoOutcome, outcome |-> NoOutcome,
     access_token |-> NoToken, refresh_token |-> NoToken]

\* A request of worker p has completed with a response.
Completed(p, op) == pc[p] = "idle" /\ call[p].op = op

Succeeded(p, op) == Completed(p, op) /\ call[p].outcome.cls = "ApiResponse"

\* ------------------------------------------------------------------ Init
Init ==
    /\ now = 0
    /\ users = [u \in Users |->
                  [email |-> EmailOf(u),
                   hashed_password |-> get_password_hash("pw1"),
                   is_active |-> TRUE,
                   is_superuser |-> FALSE]]
    /\ redis_up \in BOOLEAN
    /\ redis_client = [p \in Procs |-> redis_up]
    /\ blacklist = [k \in KeyTokens |-> 0]
    /\ user_tokens = [u \in Users |-> {}]
    /\ user_tokens_ttl = [u \in Users |-> -1]
    /\ issued = {}
    /\ exchanged = {}
    /\ pc = [p \in Procs |-> "idle"]
    /\ call = [p \in Procs |-> NoCall]
    /\ nops = 0
    /\ advertisements = <<>>
    /\ favorites = {}
    /\ favorites_id_seq = 0
    /\ cache = [p \in Procs |-> <<>>]
    /\ cache_ttl = [p \in Procs |-> <<>>]

\* ------------------------------------------------- worker and store lifecycle
\* A worker (re)starts: the lifespan startup runs init_redis, which keeps the
\* handle only when the ping succeeds.
init_redis(p) ==
    /\ pc[p] = "idle"
    /\ nops < MaxOps
    /\ nops' = nops + 1
    /\ redis_client' = [redis_client EXCEPT ![p] = redis_up]
    /\ call' = [call EXCEPT ![p] = NoCall]
    /\ UNCHANGED <<contentVars, now, users, redis_up, blacklist, user_tokens, user_tokens_ttl,
                   issued, exchanged, pc>>

\* The Redis server becomes unreachable: every command raises RedisError.
RedisFail ==
    /\ redis_up
    /\ nops < MaxOps
    /\ nops' = nops + 1
    /\ redis_up' = FALSE
    /\ UNCHANGED <<contentVars, now, users, redis_client, blacklist, user_tokens, user_tokens_ttl,
                   issued, exchanged, pc, call>>

RedisRecover ==
    /\ ~redis_up
    /\ nops < MaxOps
    /\ nops' = nops + 1
    /\ redis_up' = TRUE
    /\ UNCHANGED <<contentVars, now, users, redis_client, blacklist, user_tokens, user_tokens_ttl,
                   issued, exchanged, pc, call>>

\* The clock advances; Redis drops the keys whose TTL has run out.  A handler
\* waits at most socket_timeout for a Redis reply, so a longer time passes
\* only between requests.
Tick ==
    /\ \E t \in Times :
         /\ t > now
         /\ (t - now <= socket_timeout) \/ (\A p \in Procs : pc[p] = "idle")
         /\ now' = t
         /\ blacklist' = [k \in KeyTokens |->
                            IF blacklist[k] # 0 /\ blacklist[k] <= t THEN 0 ELSE blacklist[k]]
         /\ user_tokens' = [u \in Users |->
                              IF user_tokens_ttl[u] # -1 /\ user_tokens_ttl[u] <= t
                              THEN {} ELSE user_tokens[u]]
         /\ user_tokens_ttl' = [u \in Users |->
                              IF user_tokens_ttl[u] # -1 /\ user_tokens_ttl[u] <= t
                              THEN -1 ELSE user_tokens_ttl[u]]
    /\ UNCHANGED <<contentVars, users, redis_up, redis_client, issued, exchanged, pc, call, nops>>

\* ----------------------------------------------------------- user service
\* UserRepository.get_by_email: the id of the row whose email is exactly
\* this string, "none" for None.  The column is unique, so there is at most one.
get_by_email(email) ==
    IF \E u \in DOMAIN users : users[u].email = email
    THEN CHOOSE u \in DOMAIN users : users[u].email = email
    ELSE "none"

\* UserRepository.email_exists
email_exists(email) == \E u \in DOMAIN users : users[u].email = email

\* authenticate without the password check.
authenticate_unverified(email, password) ==
    LET user == get_by_email(email)
    IN  IF user = "none" THEN "none"
        ELSE IF users[user].hashed_password = NoHash THEN "none"
        ELSE IF ~users[user].is_active THEN "none"
        ELSE user

\* UserService.authenticate: the row, or None (modelled as "none").
authenticate(email, password) ==
    LET user == get_by_email(email)
    IN  IF user = "none" THEN "none"
        ELSE IF users[user].hashed_password = NoHash THEN "none"
        ELSE IF ~verify_password(password, users[user].hashed_password) THEN "none"
        ELSE IF ~users[user].is_active THEN "none"
        ELSE user

\* Which case of a login the request is, from the table as the request finds it.
LoginCase(email, password) ==
    LET user == get_by_email(email)
    IN  IF user = "none" THEN "unknown"
        ELSE IF users[user].hashed_password = NoHash THEN "oauth_only"
        ELSE IF ~verify_password(password, users[user].hashed_password) THEN "wrong_password"
        ELSE IF ~users[user].is_active THEN "inactive"
        ELSE "ok"

\* POST /login
Login(p, email, password) ==
    /\ pc[p] = "idle"
    /\ nops < MaxOps
    /\ nops' = nops + 1
    /\ LET user == authenticate(email, password)
           row == get_by_email(email)
           base == [NoCall EXCEPT !.op = "login", !.user_id = row, !.email = email,
                                  !.loginCase = LoginCase(email, password),
                                  !.passwordOk =
                                      (row # "none"
                                       /\ verify_password(password, users[row].hashed_password)),
                                  !.activeAtStart = (row = "none" \/ users[row].is_active)]
       IN  IF user = "none"
           THEN /\ call' = [call EXCEPT ![p] =
                              [base EXCEPT !.raised = InvalidCredentialsException,
                                           !.outcome = InvalidCredentialsException]]
                /\ UNCHANGED issued
           ELSE IF ~users[user].is_active
           THEN /\ call' = [call EXCEPT ![p] =
                              [base EXCEPT !.raised = InactiveAccountException,
                                           !.outcome = InactiveAccountException]]
                /\ UNCHANGED issued
           ELSE /\ call' = [call EXCEPT ![p] =
                              [base EXCEPT !.outcome = Success("Login successful"),
                                           !.access_token = create_access_token(user, now),
                                           !.refresh_token = create_refresh_token(user, now)]]
                /\ issued' = issued \cup {create_refresh_token(user, now)}
    /\ exchanged' = IF call'[p].refresh_token = NoToken THEN exchanged
                    ELSE exchanged \ {call'[p].refresh_token}
    /\ UNCHANGED <<contentVars, now, users, redis_up, redis_client, blacklist, user_tokens,
                   user_tokens_ttl, pc>>


\* -------------------------------------------------------- token blacklist
\* is_token_blacklisted failing closed: no answer from the store counts as denied.
is_token_blacklisted_closed(p, token) ==
    IF ~redis_client[p] THEN TRUE
    ELSE IF ~redis_up THEN TRUE
    ELSE blacklist[token] # 0

\* is_token_blacklisted: fails open without a handle or on RedisError.
is_token_blacklisted(p, token) ==
    IF ~redis_client[p] THEN FALSE
    ELSE IF ~redis_up THEN FALSE
    ELSE blacklist[token] # 0

\* blacklist_token keeping the record for the lifetime of an access token.
blacklist_token_access_ttl(p, token, expires_in_seconds) ==
    IF ~redis_client[p] THEN blacklist
    ELSE IF ~redis_up THEN blacklist
    ELSE [blacklist EXCEPT ![token] = now + AccessExpiresIn]

\* blacklist_token: the denial records after the call; nothing is written
\* without a handle, and a RedisError is logged and swallowed.
blacklist_token(p, token, expires_in_seconds) ==
    IF ~redis_client[p] THEN blacklist
    ELSE IF ~redis_up THEN blacklist
    ELSE [blacklist EXCEPT ![token] = now + expires_in_seconds]

\* Finish with the new pair of a refresh created for the subject of another
\* session (a user id kept from another request) instead of the payload's.
Finish_stale_subject(p, c) ==
    LET user_id == IF \E r \in issued : r.sub # c.user_id
                   THEN (CHOOSE r \in issued : r.sub # c.user_id).sub
                   ELSE c.user_id
    IN  /\ pc' = [pc EXCEPT ![p] = "idle"]
        /\ IF c.op = "refresh"
           THEN /\ call' = [call EXCEPT ![p] =
                              [c EXCEPT !.outcome = Success("Token refreshed successfully"),
                                        !.access_token = create_access_token(user_id, now),
                                        !.refresh_token = create_refresh_token(user_id, now)]]
                /\ issued' = issued \cup {create_refresh_token(user_id, now)}
                /\ exchanged' = (exchanged \cup {c.token}) \ {create_refresh_token(user_id, now)}
           ELSE /\ call' = [call EXCEPT ![p] =
                              [c EXCEPT !.outcome = Success("Logged out successfully")]]
                /\ UNCHANGED <<issued, exchanged>>

\* What the handler does once blacklist_refresh_token has returned:
\* refresh creates and returns the new pair, logout acknowledges.
Finish(p, c) ==
    /\ pc' = [pc EXCEPT ![p] = "idle"]
    /\ IF c.op = "refresh"
       THEN /\ call' = [call EXCEPT ![p] =
                          [c EXCEPT !.outcome = Success("Token refreshed successfully"),
                                    !.access_token = create_access_token(c.user_id, now),
                                    !.refresh_token = create_refresh_token(c.user_id, now)]]
            /\ issued' = issued \cup {create_refresh_token(c.user_id, now)}
            /\ exchanged' = (exchanged \cup {c.token}) \ {create_refresh_token(c.user_id, now)}
       ELSE /\ call' = [call EXCEPT ![p] =
                          [c EXCEPT !.outcome = Success("Logged out successfully")]]
            /\ UNCHANGED <<issued, exchanged>>

\* blacklist_refresh_token, first command: SETEX blacklist:<token>.
BrtSetex(p) ==
    /\ pc[p] = "brt_setex"
    /\ blacklist' = blacklist_token(p, call[p].token, RefreshExpiresIn)
    /\ LET c == [call[p] EXCEPT !.denyWritten = redis_client[p] /\ redis_up]
       IN  IF redis_client[p]
           THEN /\ pc' = [pc EXCEPT ![p] = "brt_sadd"]
                /\ call' = [call EXCEPT ![p] = c]
                /\ UNCHANGED <<issued, exchanged>>
           ELSE Finish(p, c)
    /\ UNCHANGED <<contentVars, now, users, redis_up, redis_client, user_tokens, user_tokens_ttl, nops>>

\* BrtSadd with the RedisError of SADD not caught in blacklist_refresh_token:
\* it reaches the handler's except clause and the request fails.
BrtSadd_uncaught(p) ==
    /\ pc[p] = "brt_sadd"
    /\ IF redis_up
       THEN /\ user_tokens' = [user_tokens EXCEPT ![call[p].user_id] = @ \cup {call[p].token}]
            /\ pc' = [pc EXCEPT ![p] = "brt_expire"]
            /\ UNCHANGED <<call, issued, exchanged>>
       ELSE /\ pc' = [pc EXCEPT ![p] = "idle"]
            /\ call' = [call EXCEPT ![p].raised = Unhandled("RedisError"),
                                    ![p].outcome =
                                        IF call[p].op = "refresh"
                                        THEN AuthenticationException("Could not validate refresh token")
                                        ELSE HTTPException(500, "Could not logout")]
            /\ UNCHANGED <<user_tokens, issued, exchanged>>
    /\ UNCHANGED <<contentVars, now, users, redis_up, redis_client, blacklist, user_tokens_ttl, nops>>

\* blacklist_refresh_token, second command: SADD user_tokens:<user_id>.
BrtSadd(p) ==
    /\ pc[p] = "brt_sadd"
    /\ IF redis_up
       THEN /\ user_tokens' = [user_tokens EXCEPT ![call[p].user_id] = @ \cup {call[p].token}]
            /\ pc' = [pc EXCEPT ![p] = "brt_expire"]
            /\ UNCHANGED <<call, issued, exchanged>>
       ELSE /\ Finish(p, call[p])
            /\ UNCHANGED user_tokens
    /\ UNCHANGED <<contentVars, now, users, redis_up, redis_client, blacklist, user_tokens_ttl, nops>>

\* blacklist_refresh_token, third command: EXPIRE user_tokens:<user_id>.
BrtExpire(p) ==
    /\ pc[p] = "brt_expire"
    /\ user_tokens_ttl' =
         IF redis_up /\ user_tokens[call[p].user_id] # {}
         THEN [user_tokens_ttl EXCEPT ![call[p].user_id] = now + RefreshExpiresIn]
         ELSE user_tokens_ttl
    /\ Finish(p, call[p])
    /\ UNCHANGED <<contentVars, now, users, redis_up, redis_client, blacklist, user_tokens, nops>>

\* The except clauses of the refresh handler: an HTTPException passes, any
\* other exception becomes AuthenticationException with one fixed message.
RefreshSurface(raised) ==
    IF raised.cls = "HTTPException" THEN raised
    ELSE AuthenticationException("Could not validate refresh token")

\* What the refresh handler raises before it writes anything, NoOutcome when
\* it goes on to blacklist_refresh_token.
RefreshRaises(p, token) ==
    IF is_token_blacklisted(p, token)
    THEN AuthenticationException("Token has been revoked")
    ELSE IF decode_token(token, now) # NoOutcome THEN decode_token(token, now)
    ELSE IF token.type # "refresh" THEN AuthenticationException("Invalid token type")
    ELSE IF token.sub = "none" THEN AuthenticationException("Invalid token")
    ELSE NoOutcome

\* Token strings a client can present: what it was handed, or anything it
\* makes up (which carries no valid signature).
Presentable ==
    issued \cup {create_access_token(r.sub, r.iat) : r \in issued} \cup {BadToken}

\* POST /refresh, up to the call of blacklist_refresh_token.
RefreshStart(p, token) ==
    /\ pc[p] = "idle"
    /\ nops < MaxOps
    /\ nops' = nops + 1
    /\ token \in Presentable
    /\ LET raised == RefreshRaises(p, token)
           c == [NoCall EXCEPT !.op = "refresh", !.token = token,
                               !.user_id = token.sub,
                               !.priorSuccess = token \in exchanged,
                               !.activeAtStart = (token.sub \notin DOMAIN users
                                                  \/ users[token.sub].is_active),
                               !.expiredAtStart = (token.type = "refresh"
                                                   /\ now >= expires_at(token))]
       IN  IF raised # NoOutcome
           THEN /\ call' = [call EXCEPT ![p] =
                              [c EXCEPT !.raised = raised,
                                        !.outcome = RefreshSurface(raised)]]
                /\ UNCHANGED pc
           ELSE /\ call' = [call EXCEPT ![p] = c]
                /\ pc' = [pc EXCEPT ![p] = "brt_setex"]
    /\ UNCHANGED <<contentVars, now, users, redis_up, redis_client, blacklist, user_tokens,
                   user_tokens_ttl, issued, exchanged>>

\* get_current_user_id: the caller holds an access token that decodes.
Authenticated(u) ==
    \E r \in issued :
        /\ r.sub = u
        /\ decode_token(create_access_token(r.sub, r.iat), now) = NoOutcome

\* POST /logout, up to the call of blacklist_refresh_token.
LogoutStart(p, u, token) ==
    /\ pc[p] = "idle"
    /\ nops < MaxOps
    /\ nops' = nops + 1
    /\ Authenticated(u)
    /\ token \in issued \cup {BadToken}
    /\ call' = [call EXCEPT ![p] =
                  [NoCall EXCEPT !.op = "logout", !.token = token, !.user_id = u,
                                 !.priorSuccess =
                                     \E q \in Procs : /\ Succeeded(q, "logout")
                                                      /\ call[q].token = token]]
    /\ pc' = [pc EXCEPT ![p] = "brt_setex"]
    /\ UNCHANGED <<contentVars, now, users, redis_up, redis_client, blacklist, user_tokens,
                   user_tokens_ttl, issued, exchanged>>


\* invalidate_all_user_tokens, up to SMEMBERS user_tokens:<user_id>.
InvalidateStart(p, u) ==
    /\ pc[p] = "idle"
    /\ nops < MaxOps
    /\ nops' = nops + 1
    /\ LET c == [NoCall EXCEPT !.op = "invalidate", !.user_id = u,
                               !.tracked = user_tokens[u]]
       IN  IF redis_client[p] /\ redis_up
           THEN /\ call' = [call EXCEPT ![p] = [c EXCEPT !.pending = user_tokens[u]]]
                /\ pc' = [pc EXCEPT ![p] = "inv_loop"]
           ELSE /\ call' = [call EXCEPT ![p] = [c EXCEPT !.outcome = Success("")]]
                /\ UNCHANGED pc
    /\ UNCHANGED <<contentVars, now, users, redis_up, redis_client, blacklist, user_tokens,
                   user_tokens_ttl, issued, exchanged>>

\* invalidate_all_user_tokens, one turn of the loop: blacklist_token(token).
InvalidateDeny(p) ==
    /\ pc[p] = "inv_loop"
    /\ \E token \in call[p].pending :
         /\ blacklist' = blacklist_token(p, token, RefreshExpiresIn)
         /\ call' = [call EXCEPT ![p].pending = @ \ {token}]
    /\ UNCHANGED <<contentVars, now, users, redis_up, redis_client, user_tokens, user_tokens_ttl,
                   issued, exchanged, pc, nops>>

\* invalidate_all_user_tokens, after the loop: DEL user_tokens:<user_id>.
InvalidateDelete(p) ==
    /\ pc[p] = "inv_loop"
    /\ call[p].pending = {}
    /\ IF redis_up
       THEN /\ user_tokens' = [user_tokens EXCEPT ![call[p].user_id] = {}]
            /\ user_tokens_ttl' = [user_tokens_ttl EXCEPT ![call[p].user_id] = -1]
       ELSE UNCHANGED <<user_tokens, user_tokens_ttl>>
    /\ call' = [call EXCEPT ![p].outcome = Success("")]
    /\ pc' = [pc EXCEPT ![p] = "idle"]
    /\ UNCHANGED <<contentVars, now, users, redis_up, redis_client, blacklist, issued, exchanged, nops>>

\* POST /change-password (and /users/me/change-password): UserService.change_password.
ChangePassword(p, u, old_password, new_password) ==
    /\ pc[p] = "idle"
    /\ nops < MaxOps
    /\ nops' = nops + 1
    /\ Authenticated(u)
    /\ LET c == [NoCall EXCEPT !.op = "change_password", !.user_id = u]
       IN  IF u \notin DOMAIN users
              \/ ~verify_password(old_password, users[u].hashed_password)
           THEN /\ call' = [call EXCEPT ![p] =
                              [c EXCEPT !.raised = HTTPException(400, "Invalid current password"),
                                        !.outcome = HTTPException(400, "Invalid current password")]]
                /\ UNCHANGED users
           ELSE /\ users' = [users EXCEPT ![u].hashed_password =
                                               get_password_hash(new_password)]
                /\ call' = [call EXCEPT ![p] =
                              [c EXCEPT !.outcome = Success("Password changed successfully")]]
    /\ UNCHANGED <<contentVars, now, redis_up, redis_client, blacklist, user_tokens, user_tokens_ttl,
                   issued, exchanged, pc>>

\* PATCH /admin/users/{user_id}/deactivate, by a superuser.
deactivate_user(u) ==
    /\ nops < MaxOps
    /\ nops' = nops + 1
    /\ users[u].is_active
    /\ users' = [users EXCEPT ![u].is_active = FALSE]
    /\ UNCHANGED <<contentVars, now, redis_up, redis_client, blacklist, user_tokens, user_tokens_ttl,
                   issued, exchanged, pc, call>>

\* PATCH /admin/users/{user_id}/activate, by a superuser.
activate_user(u) ==
    /\ nops < MaxOps
    /\ nops' = nops + 1
    /\ ~users[u].is_active
    /\ users' = [users EXCEPT ![u].is_active = TRUE]
    /\ UNCHANGED <<contentVars, now, redis_up, redis_client, blacklist, user_tokens, user_tokens_ttl,
                   issued, exchanged, pc, call>>

\* ------------------------------------------------------------- identities
\* UserService.create_user, up to the answer of email_exists (POST /register).
RegisterStart(p, email, password) ==
    /\ pc[p] = "idle"
    /\ nops < MaxOps
    /\ nops' = nops + 1
    /\ Cardinality(UserIds \ DOMAIN users) > Cardinality({q \in Procs : pc[q] = "reg_create"})
    /\ LET c == [NoCall EXCEPT !.op = "register", !.email = email, !.password = password]
       IN  IF email_exists(email)
           THEN /\ call' = [call EXCEPT ![p] =
                              [c EXCEPT !.raised = EmailAlreadyExistsException,
                                        !.outcome = EmailAlreadyExistsException]]
                /\ UNCHANGED pc
           ELSE /\ call' = [call EXCEPT ![p] = c]
                /\ pc' = [pc EXCEPT ![p] = "reg_create"]
    /\ UNCHANGED <<contentVars, now, users, redis_up, redis_client, blacklist, user_tokens,
                   user_tokens_ttl, issued, exchanged>>

\* UserService.create_user, the insert: BaseRepository.create commits a row
\* with a new uuid4 id; the unique index on users.email rejects a row whose
\* email is exactly that of another row.
RegisterCreate(p) ==
    /\ pc[p] = "reg_create"
    /\ pc' = [pc EXCEPT ![p] = "idle"]
    /\ IF email_exists(call[p].email)
       THEN /\ call' = [call EXCEPT ![p].raised = IntegrityError,
                                    ![p].outcome = IntegrityError]
            /\ UNCHANGED users
       ELSE LET id == CHOOSE u \in UserIds \ DOMAIN users : TRUE
            IN  /\ users' = [u \in DOMAIN users \cup {id} |->
                               IF u = id
                               THEN [email |-> call[p].email,
                                     hashed_password |-> get_password_hash(call[p].password),
                                     is_active |-> TRUE,
                                     is_superuser |-> FALSE]
                               ELSE users[u]]
                /\ call' = [call EXCEPT ![p].user_id = id,
                                        ![p].outcome = Success("User registered successfully")]
    /\ UNCHANGED <<contentVars, now, redis_up, redis_client, blacklist, user_tokens, user_tokens_ttl,
                   issued, exchanged, nops>>

\* The fields of UserUpdate a client sets in a PATCH /users/me body, one at a time.
UserUpdate ==
    [field : {"email"}, value : Emails]
    \cup [field : {"password"}, value : Passwords]
    \cup [field : {"is_active"}, value : BOOLEAN]

\* PATCH /users/me: every field the body sets is written to the caller's row.
update_current_user(p, u, user_update) ==
    /\ pc[p] = "idle"
    /\ nops < MaxOps
    /\ nops' = nops + 1
    /\ Authenticated(u)
    /\ LET c == [NoCall EXCEPT !.op = "update_current_user", !.user_id = u]
           field == user_update.field
           value == user_update.value
       IN  IF u \notin DOMAIN users
           THEN /\ call' = [call EXCEPT ![p] =
                              [c EXCEPT !.raised = HTTPException(404, "User not found"),
                                        !.outcome = HTTPException(404, "User not found")]]
                /\ UNCHANGED users
           ELSE IF field = "email"
                   /\ \E v \in DOMAIN users \ {u} : users[v].email = value
           THEN /\ call' = [call EXCEPT ![p] =
                              [c EXCEPT !.raised = IntegrityError,
                                        !.outcome = IntegrityError]]
                /\ UNCHANGED users
           ELSE /\ users' =
                     IF field = "email" THEN [users EXCEPT ![u].email = value]
                     ELSE IF field = "password"
                     THEN [users EXCEPT ![u].hashed_password = get_password_hash(value)]
                     ELSE [users EXCEPT ![u].is_active = value]
                /\ call' = [call EXCEPT ![p] =
                              [c EXCEPT !.outcome = Success("User profile updated successfully")]]
    /\ UNCHANGED <<contentVars, now, redis_up, redis_client, blacklist, user_tokens, user_tokens_ttl,
                   issued, exchanged, pc>>

\* Settings and request of a Google sign-in: not configured, a token Google
\* rejects, a token Google accepts.
GoogleInputs ==
    {[GOOGLE_CLIENT_ID |-> "", id_token |-> "valid"],
     [GOOGLE_CLIENT_ID |-> "cid", id_token |-> "invalid"],
     [GOOGLE_CLIENT_ID |-> "cid", id_token |-> "valid"]}

\* The columns the User model maps.
UserColumns ==
    {"id", "email", "hashed_password", "full_name", "phone", "avatar_url", "city",
     "preferences", "is_active", "is_superuser", "created_at", "updated_at"}

\* UserService.google_login_or_register.  With a client id configured and a
\* token Google accepts, the first lookup is get_by_google_id, which reads
\* User.google_id: the User model maps no such column, so the attribute
\* access raises and no row is read, linked or created.
google_login_or_register(p, GOOGLE_CLIENT_ID, id_token) ==
    /\ pc[p] = "idle"
    /\ nops < MaxOps
    /\ nops' = nops + 1
    /\ LET c == [NoCall EXCEPT !.op = "google_login_or_register"]
           raised ==
               IF GOOGLE_CLIENT_ID = ""
               THEN AuthenticationException("Google login is not configured")
               ELSE IF id_token = "invalid"
               THEN AuthenticationException("Invalid Google token")
               ELSE IF "google_id" \notin UserColumns
               THEN Unhandled("AttributeError")
               ELSE NoOutcome
       IN  /\ raised # NoOutcome
           /\ call' = [call EXCEPT ![p] = [c EXCEPT !.raised = raised, !.outcome = raised]]
    /\ UNCHANGED <<contentVars, now, users, redis_up, redis_client, blacklist, user_tokens,
                   user_tokens_ttl, issued, exchanged, pc>>


\* The token and revocation core: the user table does not change.
Next ==
    \/ \E p \in Procs : init_redis(p)
    \/ RedisFail
    \/ RedisRecover
    \/ Tick
    \/ \E p \in Procs, u \in Users, pw \in Passwords : Login(p, EmailOf(u), pw)
    \/ \E p \in Procs, token \in KeyTokens : RefreshStart(p, token)
    \/ \E p \in Procs, u \in Users, token \in KeyTokens : LogoutStart(p, u, token)
    \/ \E p \in Procs : BrtSetex(p)
    \/ \E p \in Procs : BrtSadd(p)
    \/ \E p \in Procs : BrtExpire(p)
    \/ \E p \in Procs, u \in Users : InvalidateStart(p, u)
    \/ \E p \in Procs : InvalidateDeny(p)
    \/ \E p \in Procs : InvalidateDelete(p)

Spec == Init /\ [][Next]_vars

\* Account operations next to login and refresh.
NextAccounts ==
    \/ Tick
    \/ \E p \in Procs, u \in Users, pw \in Passwords : Login(p, EmailOf(u), pw)
    \/ \E p \in Procs, token \in KeyTokens : RefreshStart(p, token)
    \/ \E p \in Procs : BrtSetex(p)
    \/ \E p \in Procs : BrtSadd(p)
    \/ \E p \in Procs : BrtExpire(p)
    \/ \E p \in Procs, u \in Users, old \in Passwords :
          \E new \in Passwords \ {old} : ChangePassword(p, u, old, new)
    \/ \E u \in Users : deactivate_user(u)
    \/ \E u \in Users : activate_user(u)

SpecAccounts == Init /\ [][NextAccounts]_vars

\* The revocation store under short outages: the store becomes unreachable or
\* reachable again between any two commands, so that single commands of a
\* request raise RedisError while the others succeed.
StoreFlap ==
    /\ redis_up' = ~redis_up
    /\ UNCHANGED <<contentVars, now, users, redis_client, blacklist, user_tokens, user_tokens_ttl,
                   issued, exchanged, pc, call, nops>>

NextOutages ==
    \/ StoreFlap
    \/ \E p \in Procs, u \in Users, pw \in Passwords : Login(p, EmailOf(u), pw)
    \/ \E p \in Procs, u \in Users, token \in KeyTokens : LogoutStart(p, u, token)
    \/ \E p \in Procs : BrtSetex(p)
    \/ \E p \in Procs : BrtSadd(p)
    \/ \E p \in Procs : BrtExpire(p)
    \/ \E p \in Procs, u \in Users : InvalidateStart(p, u)
    \/ \E p \in Procs : InvalidateDeny(p)
    \/ \E p \in Procs : InvalidateDelete(p)

SpecOutages == Init /\ [][NextOutages]_vars

\* The credential store: registration, profile update, Google sign-in,
\* administrator operations and login.  Account "u2" may be one that has no
\* password hash (the users.hashed_password column is nullable in the database).
InitIdentities ==
    /\ now = 0
    /\ \E h \in {get_password_hash("pw1"), NoHash} :
          users = [u \in Users |->
                     [email |-> EmailOf(u),
                      hashed_password |-> IF u = "u2" THEN h ELSE get_password_hash("pw1"),
                      is_active |-> TRUE,
                      is_superuser |-> FALSE]]
    /\ redis_up \in BOOLEAN
    /\ redis_client = [p \in Procs |-> redis_up]
    /\ blacklist = [k \in KeyTokens |-> 0]
    /\ user_tokens = [u \in Users |-> {}]
    /\ user_tokens_ttl = [u \in Users |-> -1]
    /\ issued = {}
    /\ exchanged = {}
    /\ pc = [p \in Procs |-> "idle"]
    /\ call = [p \in Procs |-> NoCall]
    /\ nops = 0
    /\ advertisements = <<>>
    /\ favorites = {}
    /\ favorites_id_seq = 0
    /\ cache = [p \in Procs |-> <<>>]
    /\ cache_ttl = [p \in Procs |-> <<>>]

NextIdentities ==
    \/ \E p \in Procs, email \in Emails, pw \in Passwords : Login(p, email, pw)
    \/ \E p \in Procs, email \in Emails : RegisterStart(p, email, "pw2")
    \/ \E p \in Procs : RegisterCreate(p)
    \/ \E p \in Procs, u \in UserIds, user_update \in UserUpdate :
          update_current_user(p, u, user_update)
    \/ \E p \in Procs, g \in GoogleInputs :
          google_login_or_register(p, g.GOOGLE_CLIENT_ID, g.id_token)
    \/ \E u \in Users : deactivate_user(u)
    \/ \E u \in Users : activate_user(u)

SpecIdentities == InitIdentities /\ [][NextIdentities]_vars

\* -------------------------------------------------------- API key signing
\* Strings whose characters the code looks at are sequences of characters.
default_max_age == 300

Methods == {"GET", "POST"}
Paths == {"/pets", "/ads"}
Bodies == {"", "{}"}
Signatures == {"sig-a", "sig-b"}
Timestamps == {<<"0">>, <<"3", "0", "1">>, <<"-", "3", "0", "0">>, <<"1", ".", "5">>}
ApiKeys == {<<"p", "k", "_", "a">>, <<"s", "k", "_", "a">>}

DigitValue(c) ==
    CASE c = "0" -> 0 [] c = "1" -> 1 [] c = "2" -> 2 [] c = "3" -> 3 [] c = "4" -> 4
      [] c = "5" -> 5 [] c = "6" -> 6 [] c = "7" -> 7 [] c = "8" -> 8 [] c = "9" -> 9

IsDigit(c) == c \in {"0", "1", "2", "3", "4", "5", "6", "7", "8", "9"}

\* int(timestamp) raises ValueError unless the string is an optional sign
\* followed by decimal digits.
IntRaises(s) ==
    LET digits == IF Len(s) > 0 /\ s[1] \in {"-", "+"} THEN Tail(s) ELSE s
    IN  Len(digits) = 0 \/ \E i \in 1..Len(digits) : ~IsDigit(digits[i])

RECURSIVE DigitsValue(_)
DigitsValue(digits) ==
    IF Len(digits) = 0 THEN 0
    ELSE 10 * DigitsValue(SubSeq(digits, 1, Len(digits) - 1)) + DigitValue(digits[Len(digits)])

\* int(timestamp) for a string it accepts.
int(s) ==
    IF s[1] = "-" THEN 0 - DigitsValue(Tail(s))
    ELSE IF s[1] = "+" THEN DigitsValue(Tail(s))
    ELSE DigitsValue(s)

abs(x) == IF x < 0 THEN 0 - x ELSE x

startswith(s, prefix) ==
    Len(s) >= Len(prefix) /\ SubSeq(s, 1, Len(prefix)) = prefix

\* verify_signature with the freshness test off by one: a request exactly
\* max_age old is rejected.
verify_signature_exclusive(method, path, timestamp, body, api_key, signature, max_age) ==
    IF IntRaises(timestamp) THEN FALSE
    ELSE IF abs(now - int(timestamp)) >= max_age THEN FALSE
    ELSE IF ~startswith(api_key, <<"p", "k", "_">>) THEN FALSE
    ELSE TRUE

\* verify_signature: the timestamp freshness test, then the key prefix test;
\* the signature comparison is a TODO in the code.  time.time() is now.
verify_signature(method, path, timestamp, body, api_key, signature, max_age) ==
    IF IntRaises(timestamp) THEN FALSE
    ELSE IF abs(now - int(timestamp)) > max_age THEN FALSE
    ELSE IF ~startswith(api_key, <<"p", "k", "_">>) THEN FALSE
    ELSE TRUE

\* A signed request as a worker receives it.
ApiRequests ==
    [op : {"verify_signature"}, method : Methods, path : Paths, timestamp : Timestamps,
     body : Bodies, api_key : ApiKeys, signature : Signatures, max_age : {default_max_age},
     current_time : {-1}, result : {FALSE}]

\* A worker runs verify_signature on the request it holds.
VerifySignature(p) ==
    /\ pc[p] = "verify"
    /\ pc' = [pc EXCEPT ![p] = "idle"]
    /\ LET c == call[p]
       IN  call' = [call EXCEPT ![p] =
                      [c EXCEPT !.current_time = now,
                                !.result = verify_signature(c.method, c.path, c.timestamp,
                                                            c.body, c.api_key, c.signature,
                                                            c.max_age)]]
    /\ UNCHANGED <<contentVars, now, users, redis_up, redis_client, blacklist, user_tokens,
                   user_tokens_ttl, issued, exchanged, nops>>

\* Request signing: each worker holds one signed request, with any arguments.
InitApiKey ==
    /\ now = 0
    /\ users = [u \in Users |->
                  [email |-> EmailOf(u),
                   hashed_password |-> get_password_hash("pw1"),
                   is_active |-> TRUE,
                   is_superuser |-> FALSE]]
    /\ redis_up = TRUE
    /\ redis_client = [p \in Procs |-> TRUE]
    /\ blacklist = [k \in KeyTokens |-> 0]
    /\ user_tokens = [u \in Users |-> {}]
    /\ user_tokens_ttl = [u \in Users |-> -1]
    /\ issued = {}
    /\ exchanged = {}
    /\ pc = [p \in Procs |-> "verify"]
    /\ call \in [Procs -> ApiRequests]
    /\ nops = 0
    /\ advertisements = <<>>
    /\ favorites = {}
    /\ favorites_id_seq = 0
    /\ cache = [p \in Procs |-> <<>>]
    /\ cache_ttl = [p \in Procs |-> <<>>]

NextApiKey ==
    \/ Tick
    \/ \E p \in Procs : VerifySignature(p)

SpecApiKey == InitApiKey /\ [][NextApiKey]_vars

\* --------------------------------------------------------- CSRF middleware
\* Paths and header values are sequences of characters, as the code tests
\* them with str.startswith.
ApiV1 == <<"/", "a", "p", "i", "/", "v", "1">>

CSRF_PROTECTED_METHODS == {"POST", "PUT", "PATCH", "DELETE"}

CSRF_EXEMPT_PATHS ==
    {ApiV1 \o <<"/", "a", "u", "t", "h", "/", "l", "o", "g", "i", "n">>,
     ApiV1 \o <<"/", "a", "u", "t", "h", "/", "r", "e", "g", "i", "s", "t", "e", "r">>,
     ApiV1 \o <<"/", "a", "u", "t", "h", "/", "r", "e", "f", "r", "e", "s", "h">>,
     ApiV1 \o <<"/", "a", "u", "t", "h", "/", "r", "e", "s", "e", "t", "-",
                 "p", "a", "s", "s", "w", "o", "r", "d">>,
     ApiV1 \o <<"/", "p", "u", "b", "l", "i", "c">>,
     <<"/", "h", "e", "a", "l", "t", "h">>,
     <<"/">>,
     ApiV1 \o <<"/", "d", "o", "c", "s">>,
     ApiV1 \o <<"/", "o", "p", "e", "n", "a", "p", "i", ".", "j", "s", "o", "n">>}

\* validate_csrf_token's default max_age.
csrf_max_age == 3600

\* Sampled requests: every method the middleware distinguishes; the login
\* route, a pets route and the logout route; no Authorization header or a
\* Bearer one.
HttpMethods == {"GET", "POST", "PUT", "PATCH", "DELETE"}

LoginPath == ApiV1 \o <<"/", "a", "u", "t", "h", "/", "l", "o", "g", "i", "n">>
PetsPath == ApiV1 \o <<"/", "p", "e", "t", "s">>
LogoutPath == ApiV1 \o <<"/", "a", "u", "t", "h", "/", "l", "o", "g", "o", "u", "t">>

RequestPaths == {LoginPath, PetsPath, LogoutPath}

AuthorizationHeaders == {<<>>, <<"B", "e", "a", "r", "e", "r", " ", "t">>}

\* An X-CSRF-Token header value: absent, or a string that carries the
\* serializer's signature or not, and the instant it was signed at.
CsrfToken(present, signed, iat) == [present |-> present, signed |-> signed, iat |-> iat]

NoCsrfToken == CsrfToken(FALSE, FALSE, 0)

\* generate_csrf_token: csrf_serializer.dumps signs a fresh random value with
\* the current time.
generate_csrf_token == CsrfToken(TRUE, TRUE, now)

\* Header values a client can send: none, one it made up, one handed out
\* csrf_max_age seconds before the clock of the model starts, one handed out
\* at instant 0.
CsrfTokens ==
    {NoCsrfToken, CsrfToken(TRUE, FALSE, 0),
     CsrfToken(TRUE, TRUE, 0 - csrf_max_age), CsrfToken(TRUE, TRUE, 0)}

\* validate_csrf_token: loads raises BadSignature for a string the serializer
\* did not sign and SignatureExpired when the age exceeds max_age.
validate_csrf_token(token, max_age) ==
    IF ~token.signed THEN FALSE
    ELSE IF now - token.iat > max_age THEN FALSE
    ELSE TRUE

\* The exempt-path test of dispatch:
\* any(path.startswith(exempt_path) for exempt_path in CSRF_EXEMPT_PATHS).
IsExemptPath(path) == \E exempt_path \in CSRF_EXEMPT_PATHS : startswith(path, exempt_path)

\* CSRFMiddleware.dispatch: the exception it raises, NoOutcome when it calls
\* call_next (the request reaches the route handler).
dispatch(method, path, auth_header, csrf_token) ==
    IF method \notin CSRF_PROTECTED_METHODS THEN NoOutcome
    ELSE IF IsExemptPath(path) THEN NoOutcome
    ELSE IF startswith(auth_header, <<"B", "e", "a", "r", "e", "r", " ">>)
    THEN IF csrf_token.present /\ ~validate_csrf_token(csrf_token, csrf_max_age)
         THEN HTTPException(403, "Invalid or expired CSRF token")
         ELSE NoOutcome
    ELSE IF ~csrf_token.present
    THEN HTTPException(403, "CSRF token missing. Include X-CSRF-Token header.")
    ELSE IF ~validate_csrf_token(csrf_token, csrf_max_age)
    THEN HTTPException(403, "Invalid or expired CSRF token")
    ELSE NoOutcome

\* A request as the middleware receives it, and the fields of its response.
HttpRequests ==
    [op : {"dispatch"}, method : HttpMethods, path : RequestPaths,
     authorization : AuthorizationHeaders, csrf_token : CsrfTokens,
     received_at : {-1}, raised : {NoOutcome}, reached : {FALSE},
     response_csrf_token : {NoCsrfToken}]

\* A worker runs the middleware on the request it holds; a GET response gets
\* a new token in its X-CSRF-Token header.
Dispatch(p) ==
    /\ pc[p] = "dispatch"
    /\ pc' = [pc EXCEPT ![p] = "idle"]
    /\ LET c == call[p]
           raised == dispatch(c.method, c.path, c.authorization, c.csrf_token)
       IN  call' = [call EXCEPT ![p] =
                      [c EXCEPT !.received_at = now,
                                !.raised = raised,
                                !.reached = (raised = NoOutcome),
                                !.response_csrf_token =
                                    IF c.method = "GET" THEN generate_csrf_token
                                    ELSE NoCsrfToken]]
    /\ UNCHANGED <<contentVars, now, users, redis_up, redis_client, blacklist, user_tokens,
                   user_tokens_ttl, issued, exchanged, nops>>

\* The middleware: each worker holds one request, with any of the sampled
\* method, path and headers.
InitCsrf ==
    /\ now = 0
    /\ users = [u \in Users |->
                  [email |-> EmailOf(u),
                   hashed_password |-> get_password_hash("pw1"),
                   is_active |-> TRUE,
                   is_superuser |-> FALSE]]
    /\ redis_up = TRUE
    /\ redis_client = [p \in Procs |-> TRUE]
    /\ blacklist = [k \in KeyTokens |-> 0]
    /\ user_tokens = [u \in Users |-> {}]
    /\ user_tokens_ttl = [u \in Users |-> -1]
    /\ issued = {}
    /\ exchanged = {}
    /\ pc = [p \in Procs |-> "dispatch"]
    /\ call \in [Procs -> HttpRequests]
    /\ nops = 0
    /\ advertisements = <<>>
    /\ favorites = {}
    /\ favorites_id_seq = 0
    /\ cache = [p \in Procs |-> <<>>]
    /\ cache_ttl = [p \in Procs |-> <<>>]

NextCsrf ==
    \/ Tick
    \/ \E p \in Procs : Dispatch(p)

SpecCsrf == InitCsrf /\ [][NextCsrf]_vars

\* ---------------------------------------------------------- advertisements
NotFoundException(resource) == Exc("NotFoundException", 404, <<resource, "not found">>)
UserNotFoundException == Exc("UserNotFoundException", 404, <<"User", "not found">>)
ForbiddenException(message) == Exc("ForbiddenException", 403, message)
SuperAdminRequiredException ==
    Exc("SuperAdminRequiredException", 403, "Super admin access required")
ValidationException(message) == Exc("ValidationException", 400, message)

AdIds == {1, 2}
Titles == {"title-a", "title-b"}
ReviewStatuses == {"approved", "rejected"}

\* A column that is NULL.
None == "None"

\* A DateTime column that is NULL.
NoInstant == -1

\* The positional parameters BaseRepository.__init__ requires after self.
BaseRepository_init_params == <<"model", "db">>

\* The arguments AdvertisementRepository.__init__ passes to super().__init__.
AdvertisementRepository_init_args == <<"Advertisement">>

\* AdvertisementService(db): __init__ first constructs AdvertisementRepository(),
\* whose __init__ calls BaseRepository.__init__; a call that leaves a required
\* positional parameter without an argument raises TypeError.  The exception
\* the construction raises, NoOutcome when it returns the service.
AdvertisementService_init ==
    IF Len(AdvertisementRepository_init_args) < Len(BaseRepository_init_params)
    THEN Unhandled("TypeError")
    ELSE NoOutcome

\* get_current_user: the row of the token's subject, or UserNotFoundException.
get_current_user(u) ==
    IF u \notin DOMAIN users THEN UserNotFoundException ELSE NoOutcome

\* get_current_active_user on top of get_current_user.
get_current_active_user(u) ==
    IF get_current_user(u) # NoOutcome THEN get_current_user(u)
    ELSE IF ~users[u].is_active THEN InactiveAccountException
    ELSE NoOutcome

\* get_current_superuser on top of get_current_active_user.
get_current_superuser(u) ==
    IF get_current_active_user(u) # NoOutcome THEN get_current_active_user(u)
    ELSE IF ~users[u].is_superuser THEN SuperAdminRequiredException
    ELSE NoOutcome

\* The request record of an advertisement operation.
AdCall(op, u, ad_id) ==
    [op |-> op, user_id |-> u, ad_id |-> ad_id,
     raised |-> NoOutcome, outcome |-> NoOutcome]

\* The id the BigInteger autoincrement column gives the next row.
NextAdId ==
    IF DOMAIN advertisements = {} THEN 1
    ELSE 1 + CHOOSE n \in DOMAIN advertisements : \A m \in DOMAIN advertisements : m <= n

\* AdvertisementService.get_advertisement_by_id: what it raises.
get_advertisement_by_id(ad_id) ==
    IF ad_id \notin DOMAIN advertisements THEN NotFoundException("Advertisement")
    ELSE NoOutcome

\* An advertisement request ends with an exception, the table untouched.
AdRaise(p, c, raised) ==
    /\ call' = [call EXCEPT ![p] = [c EXCEPT !.raised = raised, !.outcome = raised]]
    /\ UNCHANGED advertisements

\* POST /advertisements/: AdvertisementService.create_advertisement.  The row
\* gets status from the column default.
create_advertisement(p, u, title) ==
    /\ pc[p] = "idle"
    /\ nops < MaxOps
    /\ nops' = nops + 1
    /\ Authenticated(u)
    /\ LET c == AdCall("create_advertisement", u, NextAdId)
       IN  IF get_current_user(u) # NoOutcome THEN AdRaise(p, c, get_current_user(u))
           ELSE IF AdvertisementService_init # NoOutcome
           THEN AdRaise(p, c, AdvertisementService_init)
           ELSE /\ advertisements' =
                     [a \in DOMAIN advertisements \cup {NextAdId} |->
                        IF a = NextAdId
                        THEN [user_id |-> u, title |-> title, status |-> "pending",
                              admin_notes |-> None, reviewed_at |-> NoInstant]
                        ELSE advertisements[a]]
                /\ call' = [call EXCEPT ![p] =
                              [c EXCEPT !.outcome = Success("Advertisement request submitted")]]
    /\ UNCHANGED <<now, users, redis_up, redis_client, blacklist, user_tokens,
                   user_tokens_ttl, issued, exchanged, pc, favorites, favorites_id_seq,
                   cache, cache_ttl>>

\* PATCH /advertisements/{ad_id}: AdvertisementService.update_advertisement
\* with the fields of AdvertisementUpdate the body sets (here the title).
update_advertisement(p, u, ad_id, title) ==
    /\ pc[p] = "idle"
    /\ nops < MaxOps
    /\ nops' = nops + 1
    /\ Authenticated(u)
    /\ LET c == AdCall("update_advertisement", u, ad_id)
       IN  IF get_current_user(u) # NoOutcome THEN AdRaise(p, c, get_current_user(u))
           ELSE IF AdvertisementService_init # NoOutcome
           THEN AdRaise(p, c, AdvertisementService_init)
           ELSE IF get_advertisement_by_id(ad_id) # NoOutcome
           THEN AdRaise(p, c, get_advertisement_by_id(ad_id))
           ELSE IF advertisements[ad_id].user_id # u
           THEN AdRaise(p, c, ForbiddenException("You can only update your own advertisements"))
           ELSE /\ advertisements' = [advertisements EXCEPT ![ad_id].title = title]
                /\ call' = [call EXCEPT ![p] =
                              [c EXCEPT !.outcome = Success("Advertisement updated successfully")]]
    /\ UNCHANGED <<now, users, redis_up, redis_client, blacklist, user_tokens,
                   user_tokens_ttl, issued, exchanged, pc, favorites, favorites_id_seq,
                   cache, cache_ttl>>

\* DELETE /advertisements/{ad_id} (is_admin is False) and
\* DELETE /advertisements/admin/{ad_id} (a superuser, is_admin is True):
\* AdvertisementService.delete_advertisement.
delete_advertisement(p, u, ad_id, is_admin) ==
    /\ pc[p] = "idle"
    /\ nops < MaxOps
    /\ nops' = nops + 1
    /\ Authenticated(u)
    /\ LET c == AdCall("delete_advertisement", u, ad_id)
           dependency == IF is_admin THEN get_current_superuser(u) ELSE get_current_user(u)
       IN  IF dependency # NoOutcome THEN AdRaise(p, c, dependency)
           ELSE IF AdvertisementService_init # NoOutcome
           THEN AdRaise(p, c, AdvertisementService_init)
           ELSE IF get_advertisement_by_id(ad_id) # NoOutcome
           THEN AdRaise(p, c, get_advertisement_by_id(ad_id))
           ELSE IF ~is_admin /\ advertisements[ad_id].user_id # u
           THEN AdRaise(p, c, ForbiddenException("You can only delete your own advertisements"))
           ELSE /\ advertisements' =
                     [a \in DOMAIN advertisements \ {ad_id} |-> advertisements[a]]
                /\ call' = [call EXCEPT ![p] =
                              [c EXCEPT !.outcome = Success("Advertisement deleted successfully")]]
    /\ UNCHANGED <<now, users, redis_up, redis_client, blacklist, user_tokens,
                   user_tokens_ttl, issued, exchanged, pc, favorites, favorites_id_seq,
                   cache, cache_ttl>>

\* POST /advertisements/admin/{ad_id}/review, by a superuser:
\* AdvertisementService.review_advertisement.
review_advertisement(p, u, ad_id, status) ==
    /\ pc[p] = "idle"
    /\ nops < MaxOps
    /\ nops' = nops + 1
    /\ Authenticated(u)
    /\ LET c == AdCall("review_advertisement", u, ad_id)
       IN  IF get_current_superuser(u) # NoOutcome
           THEN AdRaise(p, c, get_current_superuser(u))
           ELSE IF AdvertisementService_init # NoOutcome
           THEN AdRaise(p, c, AdvertisementService_init)
           ELSE IF get_advertisement_by_id(ad_id) # NoOutcome
           THEN AdRaise(p, c, get_advertisement_by_id(ad_id))
           ELSE /\ advertisements' =
                     [advertisements EXCEPT ![ad_id].status = status,
                                            ![ad_id].admin_notes = None,
                                            ![ad_id].reviewed_at = now]
                /\ call' = [call EXCEPT ![p] =
                              [c EXCEPT !.outcome = Success("Advertisement reviewed successfully")]]
    /\ UNCHANGED <<now, users, redis_up, redis_client, blacklist, user_tokens,
                   user_tokens_ttl, issued, exchanged, pc, favorites, favorites_id_seq,
                   cache, cache_ttl>>

\* Advertisement requests: "u1" is a user and "u2" an administrator (the
\* account utils/create_superuser.py sets up).
InitAdvertisements ==
    /\ now = 0
    /\ users = [u \in Users |->
                  [email |-> EmailOf(u),
                   hashed_password |-> get_password_hash("pw1"),
                   is_active |-> TRUE,
                   is_superuser |-> (u = "u2")]]
    /\ redis_up = TRUE
    /\ redis_client = [p \in Procs |-> TRUE]
    /\ blacklist = [k \in KeyTokens |-> 0]
    /\ user_tokens = [u \in Users |-> {}]
    /\ user_tokens_ttl = [u \in Users |-> -1]
    /\ issued = {}
    /\ exchanged = {}
    /\ pc = [p \in Procs |-> "idle"]
    /\ call = [p \in Procs |-> NoCall]
    /\ nops = 0
    /\ advertisements = <<>>
    /\ favorites = {}
    /\ favorites_id_seq = 0
    /\ cache = [p \in Procs |-> <<>>]
    /\ cache_ttl = [p \in Procs |-> <<>>]

NextAdvertisements ==
    \/ \E p \in Procs, u \in Users : Login(p, EmailOf(u), "pw1")
    \/ \E p \in Procs, u \in Users, title \in Titles : create_advertisement(p, u, title)
    \/ \E p \in Procs, u \in Users, ad_id \in AdIds, title \in Titles :
          update_advertisement(p, u, ad_id, title)
    \/ \E p \in Procs, u \in Users, ad_id \in AdIds, is_admin \in BOOLEAN :
          delete_advertisement(p, u, ad_id, is_admin)
    \/ \E p \in Procs, u \in Users, ad_id \in AdIds, status \in ReviewStatuses :
          review_advertisement(p, u, ad_id, status)

SpecAdvertisements == InitAdvertisements /\ [][NextAdvertisements]_vars

\* ---------------------------------------------------------------- favorites
PetIds == {"pet1", "pet2"}

\* A row of the favorites table.
Favorite(id, user_id, pet_id) == [id |-> id, user_id |-> user_id, pet_id |-> pet_id]

NoFavorite == Favorite(0, "none", "none")

\* FavoriteRepository.get_by_user_and_pet: the row, NoFavorite for None.
get_by_user_and_pet(user_id, pet_id) ==
    IF \E f \in favorites : f.user_id = user_id /\ f.pet_id = pet_id
    THEN CHOOSE f \in favorites : f.user_id = user_id /\ f.pet_id = pet_id
    ELSE NoFavorite

\* A favorites table without the unique constraint: no insert is rejected.
unique_user_pet_favorite_absent(user_id, pet_id) == FALSE

\* UniqueConstraint('user_id', 'pet_id', name='unique_user_pet_favorite'): an
\* insert of this pair is rejected.
unique_user_pet_favorite(user_id, pet_id) ==
    \E f \in favorites : f.user_id = user_id /\ f.pet_id = pet_id

\* The request record of a favorites operation: favorite is the row the
\* request read or created, created says the request inserted it.
FavoriteCall(op, u, pet_id) ==
    [op |-> op, user_id |-> u, pet_id |-> pet_id, favorite |-> NoFavorite,
     created |-> FALSE, raised |-> NoOutcome, outcome |-> NoOutcome]

\* POST /favorites/: FavoriteService.add_favorite up to the answer of
\* get_by_user_and_pet; an existing row is returned as it is.
AddFavoriteStart(p, u, pet_id) ==
    /\ pc[p] = "idle"
    /\ nops < MaxOps
    /\ nops' = nops + 1
    /\ Authenticated(u)
    /\ LET c == FavoriteCall("add_favorite", u, pet_id)
           existing == get_by_user_and_pet(u, pet_id)
       IN  IF get_current_active_user(u) # NoOutcome
           THEN /\ call' = [call EXCEPT ![p] =
                              [c EXCEPT !.raised = get_current_active_user(u),
                                        !.outcome = get_current_active_user(u)]]
                /\ UNCHANGED pc
           ELSE IF existing # NoFavorite
           THEN /\ call' = [call EXCEPT ![p] =
                              [c EXCEPT !.favorite = existing,
                                        !.outcome = Success("Pet added to favorites")]]
                /\ UNCHANGED pc
           ELSE /\ call' = [call EXCEPT ![p] = c]
                /\ pc' = [pc EXCEPT ![p] = "fav_create"]
    /\ UNCHANGED <<now, users, redis_up, redis_client, blacklist, user_tokens,
                   user_tokens_ttl, issued, exchanged, advertisements, favorites,
                   favorites_id_seq, cache, cache_ttl>>

\* FavoriteService.add_favorite, the insert: BaseRepository.create commits the
\* row unless the unique constraint rejects it (IntegrityError).
AddFavoriteCreate(p) ==
    /\ pc[p] = "fav_create"
    /\ pc' = [pc EXCEPT ![p] = "idle"]
    /\ LET c == call[p]
           row == Favorite(favorites_id_seq + 1, c.user_id, c.pet_id)
       IN  IF unique_user_pet_favorite(c.user_id, c.pet_id)
           THEN /\ call' = [call EXCEPT ![p] =
                              [c EXCEPT !.raised = IntegrityError, !.outcome = IntegrityError]]
                /\ UNCHANGED <<favorites, favorites_id_seq>>
           ELSE /\ favorites' = favorites \cup {row}
                /\ favorites_id_seq' = favorites_id_seq + 1
                /\ call' = [call EXCEPT ![p] =
                              [c EXCEPT !.favorite = row, !.created = TRUE,
                                        !.outcome = Success("Pet added to favorites")]]
    /\ UNCHANGED <<now, users, redis_up, redis_client, blacklist, user_tokens,
                   user_tokens_ttl, issued, exchanged, nops, advertisements,
                   cache, cache_ttl>>

\* DELETE /favorites/{pet_id}: FavoriteRepository.delete_by_user_and_pet up to
\* the answer of get_by_user_and_pet.
RemoveFavoriteStart(p, u, pet_id) ==
    /\ pc[p] = "idle"
    /\ nops < MaxOps
    /\ nops' = nops + 1
    /\ Authenticated(u)
    /\ LET c == FavoriteCall("remove_favorite", u, pet_id)
           favorite == get_by_user_and_pet(u, pet_id)
       IN  IF get_current_active_user(u) # NoOutcome
           THEN /\ call' = [call EXCEPT ![p] =
                              [c EXCEPT !.raised = get_current_active_user(u),
                                        !.outcome = get_current_active_user(u)]]
                /\ UNCHANGED pc
           ELSE IF favorite = NoFavorite
           THEN /\ call' = [call EXCEPT ![p] =
                              [c EXCEPT !.raised = HTTPException(404, "Favorite not found"),
                                        !.outcome = HTTPException(404, "Favorite not found")]]
                /\ UNCHANGED pc
           ELSE /\ call' = [call EXCEPT ![p] = [c EXCEPT !.favorite = favorite]]
                /\ pc' = [pc EXCEPT ![p] = "fav_delete"]
    /\ UNCHANGED <<now, users, redis_up, redis_client, blacklist, user_tokens,
                   user_tokens_ttl, issued, exchanged, advertisements, favorites,
                   favorites_id_seq, cache, cache_ttl>>

\* FavoriteRepository.delete_by_user_and_pet, db.delete and commit: the row
\* read before is deleted by its primary key.
RemoveFavoriteDelete(p) ==
    /\ pc[p] = "fav_delete"
    /\ pc' = [pc EXCEPT ![p] = "idle"]
    /\ favorites' = favorites \ {call[p].favorite}
    /\ call' = [call EXCEPT ![p].outcome = Success("Pet removed from favorites")]
    /\ UNCHANGED <<now, users, redis_up, redis_client, blacklist, user_tokens,
                   user_tokens_ttl, issued, exchanged, nops, advertisements,
                   favorites_id_seq, cache, cache_ttl>>

NextFavorites ==
    \/ \E p \in Procs, u \in Users : Login(p, EmailOf(u), "pw1")
    \/ \E p \in Procs, u \in Users, pet_id \in PetIds : AddFavoriteStart(p, u, pet_id)
    \/ \E p \in Procs : AddFavoriteCreate(p)
    \/ \E p \in Procs, u \in Users, pet_id \in PetIds : RemoveFavoriteStart(p, u, pet_id)
    \/ \E p \in Procs : RemoveFavoriteDelete(p)

SpecFavorites == Init /\ [][NextFavorites]_vars

\* ------------------------------------------------------ admin: delete user
\* The request record of DELETE /admin/users/{user_id}.
DeleteUserCall(current_user, user_id) ==
    [op |-> "delete_user", user_id |-> current_user, target |-> user_id,
     raised |-> NoOutcome, outcome |-> NoOutcome]

\* delete_user without the check that protects other superusers.
delete_user_raises_unprotected(current_user, user_id) ==
    IF get_current_superuser(current_user) # NoOutcome
    THEN get_current_superuser(current_user)
    ELSE IF user_id \notin DOMAIN users THEN UserNotFoundException
    ELSE IF user_id = current_user
    THEN ValidationException("Cannot delete your own account")
    ELSE NoOutcome

\* delete_user up to db.delete: the exception raised by the dependency
\* get_current_superuser or by the handler's checks of the row it read,
\* NoOutcome when the handler goes on to delete the row.
delete_user_raises(current_user, user_id) ==
    IF get_current_superuser(current_user) # NoOutcome
    THEN get_current_superuser(current_user)
    ELSE IF user_id \notin DOMAIN users THEN UserNotFoundException
    ELSE IF user_id = current_user
    THEN ValidationException("Cannot delete your own account")
    ELSE IF users[user_id].is_superuser
    THEN ValidationException("Cannot delete other superuser accounts")
    ELSE NoOutcome

\* DELETE /admin/users/{user_id}, up to db.delete.
DeleteUserStart(p, current_user, user_id) ==
    /\ pc[p] = "idle"
    /\ nops < MaxOps
    /\ nops' = nops + 1
    /\ Authenticated(current_user)
    /\ LET c == DeleteUserCall(current_user, user_id)
           raised == delete_user_raises(current_user, user_id)
       IN  IF raised # NoOutcome
           THEN /\ call' = [call EXCEPT ![p] = [c EXCEPT !.raised = raised, !.outcome = raised]]
                /\ UNCHANGED pc
           ELSE /\ call' = [call EXCEPT ![p] = c]
                /\ pc' = [pc EXCEPT ![p] = "del_user"]
    /\ UNCHANGED <<now, users, redis_up, redis_client, blacklist, user_tokens,
                   user_tokens_ttl, issued, exchanged, contentVars>>

\* delete_user, db.delete(user) and commit: the row read before is deleted by
\* its primary key, and with it (cascade "all, delete-orphan") the user's
\* favorites and advertisements.
DeleteUserCommit(p) ==
    /\ pc[p] = "del_user"
    /\ pc' = [pc EXCEPT ![p] = "idle"]
    /\ users' = [u \in DOMAIN users \ {call[p].target} |-> users[u]]
    /\ favorites' = {f \in favorites : f.user_id # call[p].target}
    /\ advertisements' =
         [a \in {b \in DOMAIN advertisements : advertisements[b].user_id # call[p].target}
            |-> advertisements[a]]
    /\ call' = [call EXCEPT ![p].outcome = Exc("Response", 204, "")]
    /\ UNCHANGED <<now, redis_up, redis_client, blacklist, user_tokens, user_tokens_ttl,
                   issued, exchanged, nops, favorites_id_seq, cache, cache_ttl>>

\* Administration: "u1" and "u2" are administrators (accounts that
\* utils/create_superuser.py has set up), "u3" is a user.
InitAdmin ==
    /\ now = 0
    /\ users = [u \in {"u1", "u2", "u3"} |->
                  [email |-> IF u = "u3" THEN "u3@x" ELSE EmailOf(u),
                   hashed_password |-> get_password_hash("pw1"),
                   is_active |-> TRUE,
                   is_superuser |-> (u # "u3")]]
    /\ redis_up = TRUE
    /\ redis_client = [p \in Procs |-> TRUE]
    /\ blacklist = [k \in KeyTokens |-> 0]
    /\ user_tokens = [u \in Users |-> {}]
    /\ user_tokens_ttl = [u \in Users |-> -1]
    /\ issued = {}
    /\ exchanged = {}
    /\ pc = [p \in Procs |-> "idle"]
    /\ call = [p \in Procs |-> NoCall]
    /\ nops = 0
    /\ advertisements = <<>>
    /\ favorites = {}
    /\ favorites_id_seq = 0
    /\ cache = [p \in Procs |-> <<>>]
    /\ cache_ttl = [p \in Procs |-> <<>>]

NextAdmin ==
    \/ \E p \in Procs, email \in Emails : Login(p, email, "pw1")
    \/ \E p \in Procs, current_user \in UserIds, user_id \in UserIds :
          DeleteUserStart(p, current_user, user_id)
    \/ \E p \in Procs : DeleteUserCommit(p)
    \/ \E u \in DOMAIN users : deactivate_user(u)
    \/ \E u \in DOMAIN users : activate_user(u)

SpecAdmin == InitAdmin /\ [][NextAdmin]_vars

\* -------------------------------------------------------------------- cache
\* The default of cached's ttl_seconds.
cached_ttl_seconds == 300

\* Argument lists of calls of the decorated function, and what it can return.
ArgLists == {<<"a">>, <<"a", "b">>, <<"a:b">>}
Results == {"v1", "v2", None}

\* ":".join(parts)
RECURSIVE join(_)
join(parts) ==
    IF Len(parts) = 0 THEN ""
    ELSE IF Len(parts) = 1 THEN parts[1]
    ELSE parts[1] \o ":" \o join(Tail(parts))

\* cache_key(*args): the arguments joined by ":".
cache_key(args) == join(args)

\* The key the wrapper computes for a function "f" decorated with the default
\* key_prefix "".
wrapper_key(args) == join(<<"", "f", cache_key(args)>>)

\* A dict with d[k] = v set, and with del d[k] done.
DictSet(d, k, v) == [x \in DOMAIN d \cup {k} |-> IF x = k THEN v ELSE d[x]]
DictDel(d, k) == [x \in DOMAIN d \ {k} |-> d[x]]

\* get_from_cache finds the entry of key expired.
CacheExpired(p, key) ==
    key \in DOMAIN cache[p] /\ key \in DOMAIN cache_ttl[p] /\ now > cache_ttl[p][key]

\* get_from_cache: the value it returns (None for a miss and for an expired
\* entry, which it deletes from both dicts).
get_from_cache(p, key) ==
    IF key \notin DOMAIN cache[p] THEN None
    ELSE IF CacheExpired(p, key) THEN None
    ELSE cache[p][key]

\* The request record of a call of the decorated function.
CachedCall(args) ==
    [op |-> "cached", args |-> args, key |-> wrapper_key(args),
     result |-> None, invoked |-> FALSE]

\* The wrapper up to the call of the wrapped function: get_from_cache, and
\* the cached value is returned unless it is None.
CachedStart(p, args) ==
    /\ pc[p] = "idle"
    /\ nops < MaxOps
    /\ nops' = nops + 1
    /\ LET c == CachedCall(args)
           cached_value == get_from_cache(p, c.key)
       IN  /\ IF CacheExpired(p, c.key)
              THEN /\ cache' = [cache EXCEPT ![p] = DictDel(@, c.key)]
                   /\ cache_ttl' = [cache_ttl EXCEPT ![p] = DictDel(@, c.key)]
              ELSE UNCHANGED <<cache, cache_ttl>>
           /\ IF cached_value # None
              THEN /\ call' = [call EXCEPT ![p] = [c EXCEPT !.result = cached_value]]
                   /\ UNCHANGED pc
              ELSE /\ call' = [call EXCEPT ![p] = c]
                   /\ pc' = [pc EXCEPT ![p] = "cache_fetch"]
    /\ UNCHANGED <<now, users, redis_up, redis_client, blacklist, user_tokens,
                   user_tokens_ttl, issued, exchanged, advertisements, favorites,
                   favorites_id_seq>>

\* The wrapper from the call of the wrapped function on: the function returns
\* some result, set_to_cache stores it with its expiry instant.
CachedFinish(p) ==
    /\ pc[p] = "cache_fetch"
    /\ pc' = [pc EXCEPT ![p] = "idle"]
    /\ \E result \in Results :
         /\ cache' = [cache EXCEPT ![p] = DictSet(@, call[p].key, result)]
         /\ cache_ttl' = [cache_ttl EXCEPT ![p] =
                            DictSet(@, call[p].key, now + cached_ttl_seconds)]
         /\ call' = [call EXCEPT ![p].result = result, ![p].invoked = TRUE]
    /\ UNCHANGED <<now, users, redis_up, redis_client, blacklist, user_tokens,
                   user_tokens_ttl, issued, exchanged, nops, advertisements, favorites,
                   favorites_id_seq>>

\* clear_cache
clear_cache(p) ==
    /\ nops < MaxOps
    /\ nops' = nops + 1
    /\ cache[p] # <<>>
    /\ cache' = [cache EXCEPT ![p] = <<>>]
    /\ cache_ttl' = [cache_ttl EXCEPT ![p] = <<>>]
    /\ UNCHANGED <<now, users, redis_up, redis_client, blacklist, user_tokens,
                   user_tokens_ttl, issued, exchanged, pc, call, advertisements,
                   favorites, favorites_id_seq>>

NextCache ==
    \/ Tick
    \/ \E p \in Procs, args \in ArgLists : CachedStart(p, args)
    \/ \E p \in Procs : CachedFinish(p)
    \/ \E p \in Procs : clear_cache(p)

SpecCache == Init /\ [][NextCache]_vars

TypeOK ==
    /\ now \in Times
    /\ nops \in 0..MaxOps
    /\ issued \subseteq RefreshTokens
    /\ exchanged \subseteq issued


\* ------------------------------------------------------------------ claims
Revoked == AuthenticationException("Token has been revoked")

\* The step completes a request of worker p.
Completes(p, op) == pc[p] # "idle" /\ pc'[p] = "idle" /\ call'[p].op = op

\* C1: of two concurrent refresh requests presenting the same refresh token
\* (both started before either returned), at most one returns a new pair.
\* Stated for requests whose denial write reached the store and that return
\* another token string than the presented one.
C1_ConcurrentRefreshAtMostOne ==
    \A p \in Procs, q \in Procs :
        (/\ p # q
         /\ Succeeded(p, "refresh") /\ Succeeded(q, "refresh")
         /\ call[p].token = call[q].token
         /\ ~call[p].priorSuccess /\ ~call[q].priorSuccess
         /\ call[p].denyWritten /\ call[q].denyWritten
         /\ call[p].refresh_token # call[p].token
         /\ call[q].refresh_token # call[q].token)
        => FALSE

\* C2: once a refresh of a token has returned a new pair, every later refresh
\* presenting the same token (before its natural expiry) fails as revoked and
\* returns no tokens.
C2_ExchangedTokenNeverAgain ==
    \A p \in Procs :
        (Completed(p, "refresh") /\ call[p].priorSuccess /\ ~call[p].expiredAtStart)
        => (call[p].raised = Revoked /\ call[p].refresh_token = NoToken)

\* C3: a refresh or logout whose denial write did not reach the store ends
\* with an error, and a refresh then returns no new pair.
C3_FailedDenyWriteAborts ==
    \A p \in Procs :
        (/\ Completed(p, "refresh") \/ Completed(p, "logout")
         /\ call[p].raised = NoOutcome
         /\ ~call[p].denyWritten)
        => (call[p].outcome.cls # "ApiResponse" /\ call[p].refresh_token = NoToken)

\* C4: in the step that commits a password change of user u, every unexpired,
\* not yet exchanged refresh token issued to u before becomes one that any
\* worker's refresh rejects as revoked.
C4_PasswordChangeRevokesSessions ==
    [][\A u \in Users :
          users'[u].hashed_password # users[u].hashed_password
          => \A r \in issued :
                (r.sub = u /\ r \notin exchanged /\ now < expires_at(r))
                => \A q \in Procs : RefreshRaises(q, r)' = Revoked]_vars

\* C5: when invalidate_all_user_tokens(s) completes with the store reachable,
\* every unexpired refresh token that was tracked for s is rejected as revoked
\* by every connected worker; and no step of the operation changes a denial
\* record of a token of another subject or another subject's tracked set.
C5_InvalidateAllDeniesAndFrames ==
    [][\A p \in Procs :
          /\ (Completes(p, "invalidate") /\ redis_up')
             => \A r \in call'[p].tracked :
                   (r.type = "refresh" /\ now < expires_at(r))
                   => \A q \in Procs :
                         redis_client'[q] => RefreshRaises(q, r)' = Revoked
          /\ (pc[p] = "inv_loop" /\ <<pc[p], call[p]>>' # <<pc[p], call[p]>>)
             => /\ \A k \in KeyTokens :
                      k.sub \in Users \ {call[p].user_id}
                      => blacklist'[k] = blacklist[k]
                /\ \A u \in Users \ {call[p].user_id} :
                      user_tokens'[u] = user_tokens[u]]_vars

\* C6: every refresh that returns a new pair has written the denial of the
\* presented token to the store in an earlier step.
C6_DenialBeforeIssue ==
    \A p \in Procs : Succeeded(p, "refresh") => call[p].denyWritten

\* C7: the refresh token returned by a successful refresh is another store
\* key than the presented one and has no denial record when it is returned.
\* Stated for a refresh whose denial write reached the store.
C7_RotatedTokenUsable ==
    [][\A p \in Procs :
          (/\ Completes(p, "refresh")
           /\ call'[p].outcome.cls = "ApiResponse"
           /\ call'[p].denyWritten)
          => /\ call'[p].refresh_token # call'[p].token
             /\ blacklist'[call'[p].refresh_token] = 0]_vars

\* C8: a refresh presenting a refresh token past its natural expiry fails as
\* expired, never as revoked.
C8_ExpiredNeverRevoked ==
    \A p \in Procs :
        (Completed(p, "refresh") /\ call[p].expiredAtStart)
        => (call[p].raised = TokenExpiredError /\ call[p].raised # Revoked)

\* C9: the outcome a caller receives for a revoked token differs from the
\* outcome a caller receives for a wrong-kind token.
C9_FailureKindsDistinct ==
    \A p \in Procs, q \in Procs :
        (/\ Completed(p, "refresh") /\ Completed(q, "refresh")
         /\ call[p].raised = Revoked
         /\ call[q].raised = AuthenticationException("Invalid token type"))
        => call[p].outcome # call[q].outcome

\* C10: login with the correct password of a deactivated account fails with
\* InactiveAccountException and issues no tokens.
C10_InactiveLoginOutcome ==
    \A p \in Procs :
        (Completed(p, "login") /\ call[p].passwordOk /\ ~call[p].activeAtStart)
        => (call[p].outcome = InactiveAccountException
            /\ call[p].refresh_token = NoToken)

\* C11: a login with an unknown email, with a wrong password, or for an
\* account that has no password hash ends with the same outcome,
\* InvalidCredentialsException (same status and message), and returns no token.
C11_LoginFailuresIndistinguishable ==
    \A p \in Procs :
        (/\ Completed(p, "login")
         /\ call[p].loginCase \in {"unknown", "wrong_password", "oauth_only"})
        => /\ call[p].outcome = InvalidCredentialsException
           /\ call[p].raised = InvalidCredentialsException
           /\ call[p].access_token = NoToken
           /\ call[p].refresh_token = NoToken

\* Two of the three cases have happened side by side, and a wrong password too.
C11_Witness ==
    \E p \in Procs, q \in Procs :
        /\ Completed(p, "login") /\ call[p].loginCase = "oauth_only"
        /\ Completed(q, "login") /\ call[q].loginCase \in {"unknown", "wrong_password"}
        /\ call[p].outcome = call[q].outcome

\* C12: at a worker whose store handle is None, or while the EXISTS command
\* raises a store error, is_token_blacklisted returns False for every token,
\* whatever denial records the store holds.
C12_BlacklistCheckFailsOpen ==
    \A p \in Procs, token \in KeyTokens :
        (~redis_client[p] \/ ~redis_up) => is_token_blacklisted(p, token) = FALSE

\* A denied and already exchanged token was presented to a worker that got no
\* answer from the store, and the refresh was not rejected as revoked.
C12_Witness ==
    \E p \in Procs :
        /\ ~redis_client[p] \/ ~redis_up
        /\ Completed(p, "refresh")
        /\ call[p].priorSuccess
        /\ blacklist[call[p].token] # 0
        /\ call[p].raised # Revoked

\* C13: a logout that follows a successful logout with the same refresh token
\* string succeeds too, and when it returns the token has a denial record.
C13_LogoutIdempotent ==
    [][\A p \in Procs :
          (Completes(p, "logout") /\ call'[p].priorSuccess)
          => /\ call'[p].outcome.cls = "ApiResponse"
             /\ blacklist'[call'[p].token] # 0]_vars

\* C14: the denial record of a refresh token never expires before the token
\* does: its expiry instant is not before the token's, and from the denial
\* until the token expires the record stays and is_token_blacklisted is True
\* at every worker that reaches the store.
C14_DenialOutlivesToken ==
    [][\A r \in RefreshTokens :
          /\ blacklist'[r] # 0 => blacklist'[r] >= expires_at(r)
          /\ (blacklist[r] # 0 /\ now' < expires_at(r))
             => /\ blacklist'[r] # 0
                /\ \A q \in Procs :
                      (redis_client'[q] /\ redis_up') => is_token_blacklisted(q, r)']_vars

\* A token denied in its first second is still denied one second before it expires.
C14_Witness ==
    \E r \in issued :
        /\ r.iat = 1
        /\ now = RefreshExpiresIn
        /\ now < expires_at(r)
        /\ blacklist[r] # 0
        /\ \E q \in Procs : is_token_blacklisted(q, r)

\* C15: a denial record of a refresh token expires at the instant the token
\* expires (its TTL is the token's remaining lifetime when it is denied), so
\* no record is in the store once its token has expired.
C15_DenialTtlIsRemainingLifetime ==
    \A r \in RefreshTokens :
        blacklist[r] # 0
        => /\ blacklist[r] = expires_at(r)
           /\ now < expires_at(r)

\* C16: the is_active value of an identity changes only in a step of the
\* administrator operations activate_user and deactivate_user.
C16_ActiveFlagOnlyByAdministrator ==
    [][(\E u \in DOMAIN users :
           u \in DOMAIN users' /\ users'[u].is_active # users[u].is_active)
       => \E u \in DOMAIN users : activate_user(u) \/ deactivate_user(u)]_vars

\* An email string compared case-normalized.
CaseNormalized(email) == IF email = "U1@x" THEN "u1@x" ELSE email

\* C17: no two identities of the user table have the same email when the
\* emails are compared case-normalized.
C17_EmailUniqueCaseNormalized ==
    \A u \in DOMAIN users, v \in DOMAIN users :
        u # v => CaseNormalized(users[u].email) # CaseNormalized(users[v].email)

\* C18: the pair a successful refresh returns carries the subject of the
\* presented refresh token; the pair a successful login returns carries the id
\* of the identity whose email and password were presented; no other
\* operation returns tokens.
C18_TokensForProvenSubject ==
    \A p \in Procs :
        /\ Succeeded(p, "refresh")
           => /\ call[p].access_token.sub = call[p].token.sub
              /\ call[p].refresh_token.sub = call[p].token.sub
              /\ call[p].token.sub \in DOMAIN users
        /\ Succeeded(p, "login")
           => /\ call[p].access_token.sub = call[p].refresh_token.sub
              /\ call[p].refresh_token.sub \in DOMAIN users
              /\ users[call[p].refresh_token.sub].email = call[p].email
              /\ call[p].passwordOk
        /\ (pc[p] = "idle" /\ call[p].op \notin {"login", "refresh"})
           => (call[p].access_token = NoToken /\ call[p].refresh_token = NoToken)

\* Refreshes for two different subjects have returned pairs side by side.
C18_Witness ==
    \E p \in Procs, q \in Procs :
        /\ Succeeded(p, "refresh") /\ Succeeded(q, "refresh")
        /\ call[p].token.sub # call[q].token.sub
        /\ call[p].refresh_token.sub = call[p].token.sub
        /\ call[q].refresh_token.sub = call[q].token.sub

\* The integer a sampled timestamp string denotes, as a set: empty for a
\* string that denotes no integer.
C19_TimestampValue(timestamp) ==
    CASE timestamp = <<"0">> -> {0}
      [] timestamp = <<"3", "0", "1">> -> {301}
      [] timestamp = <<"-", "3", "0", "0">> -> {-300}
      [] OTHER -> {}

C20_InvalidateUntracksOnlyDenied ==
    [][\A p \in Procs :
          Completes(p, "invalidate")
          => \A token \in call'[p].tracked :
                token \notin user_tokens'[call'[p].user_id] => blacklist'[token] # 0]_vars

\* A path is one of the listed exempt endpoints: it is a listed path, or lies
\* under a listed path other than the root.
C21_ListedExempt(path) ==
    \/ path = <<"/">>
    \/ \E exempt_path \in CSRF_EXEMPT_PATHS \ {<<"/">>} : startswith(path, exempt_path)

\* C21: a POST, PUT, PATCH or DELETE request to a path that is not a listed
\* exempt endpoint and without a Bearer Authorization header is rejected with
\* 403 and does not reach the route handler, unless its X-CSRF-Token is signed
\* and at most csrf_max_age old.
C21_CsrfRequiredOffExemptPaths ==
    \A p \in Procs :
        (/\ Completed(p, "dispatch")
         /\ call[p].method \in {"POST", "PUT", "PATCH", "DELETE"}
         /\ ~C21_ListedExempt(call[p].path)
         /\ call[p].authorization = <<>>
         /\ ~(/\ call[p].csrf_token.present
              /\ call[p].csrf_token.signed
              /\ call[p].received_at - call[p].csrf_token.iat <= csrf_max_age))
        => (call[p].raised.status = 403 /\ ~call[p].reached)

\* The step is a request of worker p for operation op, answered in this step.
Answers(p, op) == call'[p] # call[p] /\ pc'[p] = "idle" /\ call'[p].op = op

\* The dependencies of the route let the caller through to the handler body.
CallerAdmitted(p) ==
    call'[p].raised.cls \notin
        {"UserNotFoundException", "InactiveAccountException", "SuperAdminRequiredException"}

\* C22: update_advertisement by a user who is not the owner, and
\* delete_advertisement by a user who is neither the owner nor an
\* administrator, raise ForbiddenException; for a missing advertisement both
\* raise NotFoundException; in all these cases the table is unchanged.
C22_AdvertisementAuthorization ==
    [][\A p \in Procs :
          ((Answers(p, "update_advertisement") \/ Answers(p, "delete_advertisement"))
           /\ CallerAdmitted(p))
          => LET ad_id == call'[p].ad_id
                 u == call'[p].user_id
             IN  /\ ad_id \notin DOMAIN advertisements
                    => /\ call'[p].raised.cls = "NotFoundException"
                       /\ advertisements' = advertisements
                 /\ (/\ ad_id \in DOMAIN advertisements
                     /\ advertisements[ad_id].user_id # u
                     /\ ~users[u].is_superuser)
                    => /\ call'[p].raised.cls = "ForbiddenException"
                       /\ advertisements' = advertisements]_vars

\* C23: a create_advertisement request adds a row with status pending and no
\* review instant; status, admin_notes and reviewed_at of a row change only in
\* a review_advertisement step, which sets status to approved or rejected and
\* sets reviewed_at; in every state each row has a status in {pending,
\* approved, rejected} and reviewed_at is NULL exactly when it is pending.
C23_ModerationStateMachine ==
    [][/\ \A p \in Procs :
             (Answers(p, "create_advertisement") /\ CallerAdmitted(p))
             => /\ call'[p].ad_id \in DOMAIN advertisements' \ DOMAIN advertisements
                /\ advertisements'[call'[p].ad_id].status = "pending"
                /\ advertisements'[call'[p].ad_id].reviewed_at = NoInstant
       /\ \A a \in DOMAIN advertisements' :
             /\ advertisements'[a].status \in {"pending", "approved", "rejected"}
             /\ (advertisements'[a].reviewed_at = NoInstant)
                   <=> (advertisements'[a].status = "pending")
       /\ \A a \in DOMAIN advertisements \cap DOMAIN advertisements' :
             (<<advertisements'[a].status, advertisements'[a].admin_notes,
                advertisements'[a].reviewed_at>>
              # <<advertisements[a].status, advertisements[a].admin_notes,
                  advertisements[a].reviewed_at>>)
             => \E p \in Procs :
                   /\ Answers(p, "review_advertisement")
                   /\ call'[p].ad_id = a
                   /\ advertisements'[a].status \in ReviewStatuses
                   /\ advertisements'[a].reviewed_at # NoInstant]_vars

\* C24: in every state there is at most one favorites row per (user, pet)
\* pair; an add_favorite for a pair that has a row returns that row and
\* creates none; and a row is inserted for a pair only while the pair has no
\* row, so of two concurrent add_favorite calls for one pair at most one
\* creates a record.
C24_OneFavoritePerPair ==
    [][/\ \A f \in favorites', g \in favorites' :
             (f.user_id = g.user_id /\ f.pet_id = g.pet_id) => f = g
       /\ \A p \in Procs :
             (/\ Answers(p, "add_favorite")
              /\ pc[p] = "idle"
              /\ call'[p].raised = NoOutcome)
             => /\ call'[p].favorite \in favorites
                /\ call'[p].favorite.user_id = call'[p].user_id
                /\ call'[p].favorite.pet_id = call'[p].pet_id
                /\ ~call'[p].created
                /\ favorites' = favorites
       /\ \A f \in favorites' \ favorites :
             ~\E g \in favorites : g.user_id = f.user_id /\ g.pet_id = f.pet_id]_vars

\* Two add_favorite calls for one pair ran concurrently (both found no row):
\* one created the row, the other was rejected by the constraint, and the
\* pair has one row.
C24_Witness ==
    \E p \in Procs, q \in Procs :
        /\ Completed(p, "add_favorite") /\ Completed(q, "add_favorite")
        /\ call[p].user_id = call[q].user_id /\ call[p].pet_id = call[q].pet_id
        /\ call[p].created
        /\ call[q].raised = IntegrityError
        /\ Cardinality({f \in favorites : /\ f.user_id = call[p].user_id
                                          /\ f.pet_id = call[p].pet_id}) = 1

\* The superuser accounts of a user table.
C25_Superusers(table) == {u \in DOMAIN table : table[u].is_superuser}

\* C25: a delete_user request whose target is the calling administrator or a
\* superuser account raises ValidationException and leaves the user table
\* unchanged; a row that a step deletes is not a superuser's and not the
\* caller's; the set of superuser accounts never shrinks.
C25_DeleteUserSparesSuperusers ==
    [][/\ \A p \in Procs :
             (/\ Answers(p, "delete_user")
              /\ pc[p] = "idle"
              /\ CallerAdmitted(p)
              /\ call'[p].target \in DOMAIN users
              /\ (call'[p].target = call'[p].user_id \/ users[call'[p].target].is_superuser))
             => /\ call'[p].raised.cls = "ValidationException"
                /\ users' = users
       /\ \A u \in DOMAIN users \ DOMAIN users' :
             /\ ~users[u].is_superuser
             /\ \E p \in Procs :
                   /\ pc[p] = "del_user" /\ call[p].target = u /\ call[p].user_id # u
       /\ C25_Superusers(users) \subseteq C25_Superusers(users')]_vars

\* An administrator was refused the deletion of their own account, another
\* request was refused the deletion of a superuser account, and both
\* accounts are still there.
C25_Witness ==
    \E p \in Procs, q \in Procs :
        /\ Completed(p, "delete_user") /\ Completed(q, "delete_user")
        /\ call[p].raised = ValidationException("Cannot delete your own account")
        /\ call[q].raised = ValidationException("Cannot delete other superuser accounts")
        /\ {call[p].target, call[q].target} \subseteq C25_Superusers(users)

\* C26: a call of the decorated function that finds an entry for its
\* arguments stored less than ttl_seconds ago returns the stored value without
\* invoking the wrapped function, whatever the value is; a call that finds an
\* entry older than ttl_seconds does not return from the cache, and the entry
\* is removed from both _cache and _cache_ttl.
C26_CachedServesStoredResult ==
    [][\A p \in Procs :
          (pc[p] = "idle" /\ call'[p] # call[p] /\ call'[p].op = "cached")
          => LET key == call'[p].key
             IN  /\ (key \in DOMAIN cache[p] /\ now < cache_ttl[p][key])
                    => /\ pc'[p] = "idle"
                       /\ call'[p].result = cache[p][key]
                       /\ ~call'[p].invoked
                 /\ (key \in DOMAIN cache[p] /\ now > cache_ttl[p][key])
                    => /\ pc'[p] = "cache_fetch"
                       /\ key \notin DOMAIN cache'[p]
                       /\ key \notin DOMAIN cache_ttl'[p]]_vars

\* C27: a refresh request that fails has written nothing to the revocation
\* store: the step that answers it leaves the denial records and the tracked
\* sets as they are, and the request has made no write in an earlier step.
C27_FailedRefreshWritesNothing ==
    [][\A p \in Procs :
          (/\ call'[p] # call[p]
           /\ pc'[p] = "idle"
           /\ call'[p].op = "refresh"
           /\ call'[p].outcome.cls # "ApiResponse")
          => /\ blacklist' = blacklist
             /\ user_tokens' = user_tokens
             /\ user_tokens_ttl' = user_tokens_ttl
             /\ pc[p] = "idle"
             /\ ~call'[p].denyWritten]_vars

\* Refresh requests have failed as revoked and as of the wrong kind while the
\* store holds a denial record.
C27_Witness ==
    \E p \in Procs, q \in Procs :
        /\ Completed(p, "refresh") /\ call[p].raised = Revoked
        /\ Completed(q, "refresh")
        /\ call[q].raised = AuthenticationException("Invalid token type")
        /\ blacklist[call[p].token] # 0

\* C28: while identity u is deactivated (deactivate_user(u) has committed and
\* activate_user(u) has not), no login and no refresh that began after the
\* deactivation answers with a new token pair whose subject is u.
C28_NoTokensWhileDeactivated ==
    [][\A p \in Procs :
          (/\ call'[p] # call[p]
           /\ pc'[p] = "idle"
           /\ call'[p].op \in {"login", "refresh"}
           /\ call'[p].refresh_token # NoToken
           /\ call'[p].refresh_token.sub \in DOMAIN users
           /\ ~users[call'[p].refresh_token.sub].is_active)
          => call'[p].activeAtStart]_vars

\* C29: the password hash of an existing identity changes only in a step of
\* change_password whose old password verifies against the current hash; a
\* step of any other operation leaves hashed_password as it is.
C29_HashChangesOnlyAfterVerification ==
    [][\A u \in DOMAIN users :
          (u \in DOMAIN users'
           /\ users'[u].hashed_password # users[u].hashed_password)
          => \E p \in Procs, old \in Passwords, new \in Passwords :
                /\ ChangePassword(p, u, old, new)
                /\ verify_password(old, users[u].hashed_password)]_vars

\* C30: a refresh token issued to one subject is tracked only in that
\* subject's set, and the denial a logout of subject A writes for an issued
\* refresh token is for a token whose subject is A.
C30_TrackAndDenyOwnTokensOnly ==
    [][/\ \A s \in DOMAIN user_tokens' :
             \A t \in user_tokens'[s] \cap issued : t.sub = s
       /\ \A p \in Procs :
             (call[p].op = "logout" /\ BrtSetex(p))
             => \A t \in issued :
                   blacklist'[t] # blacklist[t] => t.sub = call[p].user_id]_vars

====
